---- MODULE Spec2Model ----
(***************************************************************************)
(* Model of the hash-linked vote ledger of app.py: class Block, class      *)
(* Blockchain (create_genesis_block, add_vote, is_chain_valid, save_chain, *)
(* load_chain), save_vote and get_vote_counts, together with the durable   *)
(* file blockchain.json and the wall clock read by Block.__init__.         *)
(***************************************************************************)
EXTENDS Integers, Sequences, FiniteSets, TLC

VARIABLES
    chain,      \* Blockchain.chain: the in-memory list of Block objects
    file,       \* content of blockchain.json (absent, unparsable, or a JSON list)
    now,        \* the value time.time() returns
    raised,     \* exception that escaped the last call ("none" if it returned)
    op,         \* history: the last operation performed
    adds,       \* history: add_vote calls since a fresh genesis-only construction, -1 otherwise
    saved,      \* history: the in-memory ledger as of the last completed save_chain
    window      \* history: "open" from add_vote until save_chain, "crashed" when a restart
                \* closed it, "failed" when save_chain raised, "unpersisted" after the restart

vars == <<chain, file, now, raised, op, adds, saved, window>>

----------------------------------------------------------------------------
(* Bounds of the model *)

MaxChain == 3   \* add_vote is not taken beyond this many in-memory entries
MaxClock == 2   \* the clock stops ticking here

(* voter_id, state, district, party as the Submit Vote handler passes them *)
VoteInputs ==
    { <<"67890", "Kerala", "Ernakulam", "LDF">>,
      <<"11111", "Tamil Nadu", "Chennai", "DMK">> }

----------------------------------------------------------------------------
(* class Block *)

\* hashlib.sha256(s.encode()).hexdigest(): a digest, modelled as an injective
\* text function of the hashed text
sha256(s) == "sha256(" \o s \o ")"

\* calculate_hash with the party left out of the hashed text
calculate_hash_skipsParty(index, timestamp, voter_hash, state, district, party, previous_hash) ==
    sha256(ToString(index) \o ToString(timestamp) \o voter_hash \o state
           \o district \o previous_hash)

\* Block.calculate_hash: the seven fields formatted into one f-string, no separators
calculate_hash(index, timestamp, voter_hash, state, district, party, previous_hash) ==
    sha256(ToString(index) \o ToString(timestamp) \o voter_hash \o state
           \o district \o party \o previous_hash)

\* Block.__init__ run when time.time() returns t
Block(index, voter_hash, state, district, party, previous_hash, t) ==
    [ index         |-> index,
      timestamp     |-> t,
      voter_hash    |-> voter_hash,
      state         |-> state,
      district      |-> district,
      party         |-> party,
      previous_hash |-> previous_hash,
      hash          |-> calculate_hash(index, t, voter_hash, state, district,
                                       party, previous_hash) ]

\* the attribute names of a Block, which are the keys of its JSON record
AllKeys == { "index", "timestamp", "voter_hash", "state", "district", "party",
             "previous_hash", "hash" }

\* the keys load_chain subscripts
LoadedKeys == { "index", "voter_hash", "state", "district", "party", "previous_hash" }

\* to_dict returning only the six constructor arguments, timestamp and hash left out
to_dict_sixFields(b) ==
    [ shape |-> "object",
      keys |-> { "index", "voter_hash", "state", "district", "party", "previous_hash" },
      val |-> b ]

\* Block.to_dict: self.__dict__, all eight attributes
to_dict(b) == [ shape |-> "object", keys |-> AllKeys, val |-> b ]

----------------------------------------------------------------------------
(* class Blockchain *)

\* create_genesis_block with the genesis link left empty instead of "0"
create_genesis_block_emptyLink(c, t) ==
    Append(c, Block(0, "GENESIS", "None", "None", "None", "", t))

\* Blockchain.create_genesis_block: appends the genesis block to self.chain
create_genesis_block(c, t) ==
    Append(c, Block(0, "GENESIS", "None", "None", "None", "0", t))

\* add_vote linking the new block to previous_block.previous_hash instead of its hash
add_vote_linksToStale(c, v, t) ==
    LET c1 == IF Len(c) = 0 THEN Append(c, Block(0, "GENESIS", "None", "None", "None", "0", t))
              ELSE c
        previous_block == c1[Len(c1)]
        voter_hash == sha256(v[1])
    IN  Append(c1, Block(Len(c1), voter_hash, v[2], v[3], v[4],
                         previous_block.previous_hash, t))

\* add_vote returning without appending when the voter's fingerprint is already in the chain
add_vote_rejectsDuplicate(c, v, t) ==
    LET c1 == IF Len(c) = 0 THEN Append(c, Block(0, "GENESIS", "None", "None", "None", "0", t))
              ELSE c
        previous_block == c1[Len(c1)]
        voter_hash == sha256(v[1])
    IN  IF \E i \in 1..Len(c1) : c1[i].voter_hash = voter_hash THEN c1
        ELSE Append(c1, Block(Len(c1), voter_hash, v[2], v[3], v[4], previous_block.hash, t))

\* Blockchain.add_vote(voter_id, state, district, party)
add_vote(c, v, t) ==
    LET c1 == IF Len(c) = 0 THEN create_genesis_block(c, t) ELSE c
        previous_block == c1[Len(c1)]
        voter_hash == sha256(v[1])
    IN  Append(c1, Block(Len(c1), voter_hash, v[2], v[3], v[4], previous_block.hash, t))

\* is_chain_valid checking also that each previous block's hash is the hash of its fields
is_chain_valid_strict(c) ==
    \A i \in 2..Len(c) :
        /\ c[i].previous_hash = c[i-1].hash
        /\ c[i-1].hash = calculate_hash(c[i-1].index, c[i-1].timestamp, c[i-1].voter_hash,
                                        c[i-1].state, c[i-1].district, c[i-1].party,
                                        c[i-1].previous_hash)

\* the for loop of is_chain_valid from position i (1-based) on: False at the first
\* block whose previous_hash is not the hash of the block before it
RECURSIVE ValidFrom(_, _)
ValidFrom(c, i) ==
    IF i > Len(c) THEN TRUE
    ELSE IF c[i].previous_hash # c[i-1].hash THEN FALSE
    ELSE ValidFrom(c, i + 1)

\* Blockchain.is_chain_valid
is_chain_valid(c) == ValidFrom(c, 2)

\* save_chain dumping self.chain[:-1], the last block left out
save_chain_dropsLast(c) ==
    [ kind |-> "list",
      recs |-> [ i \in 1..(Len(c) - 1) |->
                   [ shape |-> "object",
                     keys |-> { "index", "timestamp", "voter_hash", "state", "district",
                                "party", "previous_hash", "hash" },
                     val |-> c[i] ] ] ]

\* Blockchain.save_chain: json.dump of the list of to_dict() with mode "w"
save_chain(c) ==
    [ kind |-> "list", recs |-> [ i \in 1..Len(c) |-> to_dict(c[i]) ] ]

\* the loop of load_chain passing party and district to Block in each other's place
RECURSIVE LoadLoop_swapsFields(_, _, _, _)
LoadLoop_swapsFields(recs, i, acc, t) ==
    IF i > Len(recs) THEN [ chain |-> acc, raised |-> "none" ]
    ELSE LET d == recs[i] IN
         IF d.shape # "object" THEN [ chain |-> acc, raised |-> "TypeError" ]
         ELSE IF ~({ "index", "voter_hash", "state", "district", "party",
                     "previous_hash" } \subseteq d.keys)
              THEN [ chain |-> acc, raised |-> "KeyError" ]
         ELSE LoadLoop_swapsFields(recs, i + 1,
                       Append(acc, Block(d.val.index, d.val.voter_hash, d.val.state,
                                         d.val.party, d.val.district,
                                         d.val.previous_hash, t)),
                       t)

\* the loop of load_chain keeping the hash stored in the record instead of the one
\* Block.__init__ computes
RECURSIVE LoadLoop_trustsStoredHash(_, _, _, _)
LoadLoop_trustsStoredHash(recs, i, acc, t) ==
    IF i > Len(recs) THEN [ chain |-> acc, raised |-> "none" ]
    ELSE LET d == recs[i] IN
         IF d.shape # "object" THEN [ chain |-> acc, raised |-> "TypeError" ]
         ELSE IF ~({ "index", "voter_hash", "state", "district", "party",
                     "previous_hash", "hash" } \subseteq d.keys)
              THEN [ chain |-> acc, raised |-> "KeyError" ]
         ELSE LoadLoop_trustsStoredHash(recs, i + 1,
                       Append(acc, [ Block(d.val.index, d.val.voter_hash, d.val.state,
                                           d.val.district, d.val.party,
                                           d.val.previous_hash, t)
                                     EXCEPT !.hash = d.val.hash ]),
                       t)

\* the for loop of load_chain over chain_data, from record i on, self.chain being acc
RECURSIVE LoadLoop(_, _, _, _)
LoadLoop(recs, i, acc, t) ==
    IF i > Len(recs) THEN [ chain |-> acc, raised |-> "none" ]
    ELSE LET d == recs[i] IN
         IF d.shape # "object" THEN [ chain |-> acc, raised |-> "TypeError" ]
         ELSE IF ~(LoadedKeys \subseteq d.keys) THEN [ chain |-> acc, raised |-> "KeyError" ]
         ELSE LoadLoop(recs, i + 1,
                       Append(acc, Block(d.val.index, d.val.voter_hash, d.val.state,
                                         d.val.district, d.val.party,
                                         d.val.previous_hash, t)),
                       t)

\* load_chain without the final "if len(self.chain) == 0" of lines 78-79
load_chain_noEmptyCheck(c, f, t) ==
    IF f.kind \in {"absent", "garbage"}
    THEN [ chain |-> create_genesis_block(c, t), raised |-> "none" ]
    ELSE LoadLoop(f.recs, 1, <<>>, t)

\* Blockchain.load_chain on an object whose self.chain is c
load_chain(c, f, t) ==
    IF f.kind \in {"absent", "garbage"}
    THEN [ chain |-> create_genesis_block(c, t), raised |-> "none" ]
    ELSE LET r == LoadLoop(f.recs, 1, <<>>, t) IN
         IF r.raised # "none" THEN r
         ELSE IF Len(r.chain) = 0
              THEN [ chain |-> create_genesis_block(r.chain, t), raised |-> "none" ]
              ELSE r

\* Blockchain.__init__: self.chain = [] and then load_chain()
Blockchain_init(f, t) == load_chain(<<>>, f, t)

----------------------------------------------------------------------------
(* get_vote_counts *)

\* the row filter written "block.index >= 0", which keeps the genesis block
VoteRows_keepsGenesis(c) == SelectSeq(c, LAMBDA b : b.index >= 0)

\* the rows of the DataFrame: vars(block) of the blocks with index > 0
VoteRows(c) == SelectSeq(c, LAMBDA b : b.index > 0)

Key(b) == <<b.state, b.district, b.party>>

\* groupby(["state","district","party"]).size(): one pass over the rows, counting per key
RECURSIVE GroupSize(_, _, _)
GroupSize(rows, i, counts) ==
    IF i > Len(rows) THEN counts
    ELSE LET k == Key(rows[i]) IN
         GroupSize(rows, i + 1,
                   IF k \in DOMAIN counts
                   THEN [ counts EXCEPT ![k] = @ + 1 ]
                   ELSE [ x \in DOMAIN counts \cup {k} |->
                            IF x = k THEN 1 ELSE counts[x] ])

\* get_vote_counts on chain c: the rows State, District, Party, Votes
get_vote_counts(c) ==
    LET rows == VoteRows(c) IN
    IF Len(rows) = 0 THEN {}
    ELSE LET g == GroupSize(rows, 1, [ x \in {} |-> 0 ])
         IN  { <<k[1], k[2], k[3], g[k]>> : k \in DOMAIN g }

----------------------------------------------------------------------------
(* Initial state: the module-level Blockchain() with no blockchain.json *)

NoFile == [ kind |-> "absent", recs |-> <<>> ]

NotSaved == [ done |-> FALSE, chain |-> <<>>, at |-> 0, adds |-> -1 ]

Init ==
    /\ now = 0
    /\ file = NoFile
    /\ chain = Blockchain_init(NoFile, 0).chain
    /\ raised = "none"
    /\ op = "construct"
    /\ adds = 0
    /\ saved = NotSaved
    /\ window = "closed"

----------------------------------------------------------------------------
(* Operations *)

\* blockchain = Blockchain(): a (re)start of the script, also after a crash
Construct ==
    /\ LET r == Blockchain_init(file, now) IN
          /\ chain' = r.chain
          /\ raised' = r.raised
    /\ adds' = IF file.kind = "list" /\ Len(file.recs) > 0 THEN -1 ELSE 0
    /\ op' = "construct"
    /\ window' = CASE window = "open"   -> "crashed"
                   [] window = "failed" -> "unpersisted"
                   [] OTHER             -> "closed"
    /\ UNCHANGED <<file, now, saved>>

\* add_vote that also dumps the chain to the file
AddVote_alsoSaves ==
    /\ raised = "none"
    /\ Len(chain) < MaxChain
    /\ \E v \in VoteInputs :
          /\ chain' = add_vote(chain, v, now)
          /\ file' = save_chain(add_vote(chain, v, now))
    /\ adds' = IF adds >= 0 THEN adds + 1 ELSE adds
    /\ op' = "add_vote"
    /\ window' = "open"
    /\ UNCHANGED <<now, raised, saved>>

\* blockchain.add_vote(unique_id, state, district, party), first statement of save_vote
AddVote ==
    /\ raised = "none"
    /\ Len(chain) < MaxChain
    /\ \E v \in VoteInputs : chain' = add_vote(chain, v, now)
    /\ adds' = IF adds >= 0 THEN adds + 1 ELSE adds
    /\ op' = "add_vote"
    /\ window' = "open"
    /\ UNCHANGED <<file, now, raised, saved>>

\* blockchain.save_chain(), second statement of save_vote
SaveChain ==
    /\ raised = "none"
    /\ file' = save_chain(chain)
    /\ saved' = [ done |-> TRUE, chain |-> chain, at |-> now, adds |-> adds ]
    /\ op' = "save_chain"
    /\ window' = "closed"
    /\ UNCHANGED <<chain, now, raised, adds>>

\* the wall clock advances
Tick ==
    /\ now < MaxClock
    /\ now' = now + 1
    /\ op' = "tick"
    /\ UNCHANGED <<chain, file, raised, adds, saved, window>>

Next == Construct \/ AddVote \/ SaveChain \/ Tick

Spec == Init /\ [][Next]_vars

----------------------------------------------------------------------------
(* The durable file changed from outside the process, between a save_chain  *)
(* and the next load_chain                                                  *)

\* blockchain.json holds exactly what the last save_chain wrote
AsWritten == saved.done /\ file = save_chain(saved.chain)

\* the file as written from a ledger built by add_vote calls on a fresh one: the files
\* the outside changes below are applied to, one change per written file
Genuine == AsWritten /\ saved.adds >= 0

\* a value other than the stored one for field f of a record
Altered(f, old) ==
    CASE f = "index"         -> old + 1
      [] f = "voter_hash"    -> sha256("99999")
      [] f = "state"         -> "Goa"
      [] f = "district"      -> "Panaji"
      [] f = "party"         -> "NOTA"
      [] f = "previous_hash" -> sha256("forged")
      [] f = "timestamp"     -> old + 1
      [] f = "hash"          -> sha256("forged")

\* the file is removed: open() raises FileNotFoundError
EnvDelete ==
    /\ Genuine
    /\ file' = NoFile
    /\ op' = "env"
    /\ UNCHANGED <<chain, now, raised, adds, saved, window>>

\* the file is overwritten with text json.load rejects (JSONDecodeError)
EnvGarbage ==
    /\ Genuine
    /\ file' = [ kind |-> "garbage", recs |-> <<>> ]
    /\ op' = "env"
    /\ UNCHANGED <<chain, now, raised, adds, saved, window>>

\* the file is overwritten with the JSON text []
EnvEmptyList ==
    /\ Genuine
    /\ file' = [ kind |-> "list", recs |-> <<>> ]
    /\ op' = "env"
    /\ UNCHANGED <<chain, now, raised, adds, saved, window>>

\* one field of one record of the file as written is given another value
EnvTamper ==
    /\ Genuine
    /\ \E k \in 1..Len(file.recs), f \in LoadedKeys :
          file' = [ file EXCEPT !.recs[k].val[f] = Altered(f, @) ]
    /\ op' = "env"
    /\ UNCHANGED <<chain, now, raised, adds, saved, window>>

\* one key of one record of the file as written is removed
EnvDropKey ==
    /\ Genuine
    /\ \E k \in 1..Len(file.recs), f \in AllKeys :
          file' = [ file EXCEPT !.recs[k].keys = @ \ {f} ]
    /\ op' = "env"
    /\ UNCHANGED <<chain, now, raised, adds, saved, window>>

\* one record of the file as written is replaced by a JSON value that is no object
EnvScalar ==
    /\ Genuine
    /\ \E k \in 1..Len(file.recs) :
          file' = [ file EXCEPT !.recs[k].shape = "scalar", !.recs[k].keys = {} ]
    /\ op' = "env"
    /\ UNCHANGED <<chain, now, raised, adds, saved, window>>

NextEnv ==
    \/ Construct \/ AddVote \/ SaveChain \/ Tick
    \/ EnvDelete \/ EnvGarbage \/ EnvEmptyList
    \/ EnvTamper \/ EnvDropKey \/ EnvScalar

SpecEnv == Init /\ [][NextEnv]_vars

----------------------------------------------------------------------------
(* load_chain called again on the constructed object *)

\* blockchain.load_chain() on the populated ledger: self.chain is reset only after open()
\* and json.load succeeded, and the except branch appends to whatever it holds
LoadChainAgain ==
    /\ raised = "none"
    /\ Len(chain) < MaxChain
    /\ LET r == load_chain(chain, file, now) IN
          /\ chain' = r.chain
          /\ raised' = r.raised
    /\ adds' = -1
    /\ op' = "load_chain"
    /\ window' = "closed"
    /\ UNCHANGED <<file, now, saved>>

NextReload == Construct \/ AddVote \/ SaveChain \/ Tick \/ LoadChainAgain

SpecReload == Init /\ [][NextReload]_vars

----------------------------------------------------------------------------
(* save_chain when the file cannot be opened for writing *)

\* the call with the error swallowed (try/except around open), nothing raised
save_chain_call_swallows(c, f, openable) ==
    IF openable THEN [ file |-> save_chain(c), raised |-> "none" ]
    ELSE [ file |-> f, raised |-> "none" ]

\* blockchain.save_chain() as save_vote calls it, the file being f: open(filename, "w")
\* either succeeds and the dump replaces f, or raises OSError, which nothing catches
save_chain_call(c, f, openable) ==
    IF openable THEN [ file |-> save_chain(c), raised |-> "none" ]
    ELSE [ file |-> f, raised |-> "OSError" ]

\* second statement of save_vote when open() fails: the print and st.success are not reached
SaveChainFails ==
    /\ raised = "none"
    /\ window = "open"
    /\ LET r == save_chain_call(chain, file, FALSE) IN
          /\ file' = r.file
          /\ raised' = r.raised
    /\ op' = "save_failed"
    /\ window' = "failed"
    /\ UNCHANGED <<chain, now, adds, saved>>

NextFail == Construct \/ AddVote \/ SaveChain \/ Tick \/ SaveChainFails

SpecFail == Init /\ [][NextFail]_vars

----------------------------------------------------------------------------
(* Properties *)

\* the genesis values of an entry: index 0, "GENESIS", "None" labels, link "0"
IsGenesis(b) ==
    /\ b.index = 0
    /\ b.voter_hash = "GENESIS"
    /\ b.state = "None" /\ b.district = "None" /\ b.party = "None"
    /\ b.previous_hash = "0"

\* the last operation was a construction that reloaded, unaltered, the file a ledger
\* built by add_vote calls on a fresh ledger wrote
ReloadedGenuine == op = "construct" /\ Genuine

\* C1 (as claimed): save_chain followed by load_chain at a later clock time gives back,
\* entry by entry, the ledger that was saved (same eight field values, the recomputed
\* hash being the stored one), for a ledger built only by add_vote on a fresh ledger.
C1_RoundTrip ==
    (ReloadedGenuine /\ now > saved.at) => chain = saved.chain

\* C2 (as claimed): in every state reached by construct, add_vote, save_chain and reload,
\* every entry after the first carries the hash of its predecessor: is_chain_valid().
C2_LinkageAlways ==
    /\ is_chain_valid(chain)
    /\ \A i \in 2..Len(chain) : chain[i].previous_hash = chain[i-1].hash

\* C3: after n add_vote calls on a freshly constructed genesis-only ledger the chain has
\* n+1 entries, entry i has index i, and is_chain_valid() is true.
C3_ChainGrowth ==
    adds >= 0 =>
        /\ Len(chain) = adds + 1
        /\ \A i \in 1..Len(chain) : chain[i].index = i - 1
        /\ is_chain_valid(chain)

C3_Witness == op = "add_vote" /\ adds = 2 /\ Len(chain) = 3

\* C4: a Blockchain constructed with no durable file holds exactly the genesis entry and
\* is valid; and entries[0] has the genesis values in every state reached afterwards by
\* add_vote, save_chain and reload.
C4_Genesis ==
    /\ Len(chain) >= 1
    /\ IsGenesis(chain[1])
    /\ (op = "construct" /\ file.kind = "absent") =>
           /\ Len(chain) = 1
           /\ is_chain_valid(chain)
           /\ raised = "none"

C4_Witness ==
    /\ op = "construct" /\ file.kind = "absent"
    /\ window = "crashed"
    /\ Len(chain) = 1 /\ IsGenesis(chain[1])

\* C5: constructing the ledger when the file is missing, is not parsable JSON, or parses
\* to zero records gives a fresh genesis-only ledger and raises nothing.
C5_MissingOrCorrupt ==
    (op = "construct" /\ (file.kind \in {"absent", "garbage"}
                          \/ (file.kind = "list" /\ Len(file.recs) = 0))) =>
        /\ raised = "none"
        /\ Len(chain) = 1
        /\ IsGenesis(chain[1])
        /\ chain[1].timestamp = now
        /\ chain[1].hash = calculate_hash(0, now, "GENESIS", "None", "None", "None", "0")

C5_Witness ==
    /\ op = "construct"
    /\ file.kind = "list" /\ Len(file.recs) = 0
    /\ Len(chain) = 1 /\ IsGenesis(chain[1])

\* a record load_chain cannot take: no JSON object, or one of the six keys it reads missing
Malformed(d) == d.shape # "object" \/ ~(LoadedKeys \subseteq d.keys)

\* C6 (as claimed): when the file parses but a record lacks a required field or has the
\* wrong shape, the load leaves a genesis-only ledger, raises nothing to the caller and
\* keeps no prefix of the records.
C6_MalformedRecovered ==
    (op = "construct" /\ file.kind = "list"
       /\ \E k \in 1..Len(file.recs) : Malformed(file.recs[k])) =>
        /\ raised = "none"
        /\ Len(chain) = 1
        /\ IsGenesis(chain[1])

\* record k of the file (1-based) differs from what save_chain wrote in a field load_chain
\* reads, every other record being as written
TamperedAt(k) ==
    /\ saved.done
    /\ file.kind = "list"
    /\ Len(file.recs) = Len(saved.chain)
    /\ k \in 1..Len(file.recs)
    /\ \A j \in 1..Len(file.recs) : j # k => file.recs[j] = to_dict(saved.chain[j])
    /\ file.recs[k].shape = "object"
    /\ file.recs[k].keys = AllKeys
    /\ \E f \in LoadedKeys : file.recs[k].val[f] # saved.chain[k][f]

\* C7 (as claimed): is_chain_valid() on the loaded ledger tells tampered files from
\* untampered ones: true when the file is as save_chain wrote it, false when a committed
\* field of a record at position k < len-1 was altered in between.
C7_TamperEvidence ==
    (op = "construct" /\ raised = "none" /\ saved.done /\ saved.adds >= 0) =>
        /\ AsWritten => is_chain_valid(chain)
        /\ \A k \in 1..(Len(saved.chain) - 1) : TamperedAt(k) => ~is_chain_valid(chain)

\* the positions of the entries that count as votes
Voted(c) == { i \in 1..Len(c) : c[i].index > 0 }

\* C8: get_vote_counts has exactly one row per (state, district, party) occurring among
\* the entries with index > 0, its count being the number of such entries; no other row;
\* the genesis entry is not counted; no such entries give an empty result.
C8_TallyCorrect ==
    LET T == get_vote_counts(chain) IN
    /\ \A r \in T :
          /\ r[4] >= 1
          /\ r[4] = Cardinality({ i \in Voted(chain) : Key(chain[i]) = <<r[1], r[2], r[3]>> })
    /\ \A r1, r2 \in T : <<r1[1], r1[2], r1[3]>> = <<r2[1], r2[2], r2[3]>> => r1 = r2
    /\ \A i \in Voted(chain) : \E r \in T : <<r[1], r[2], r[3]>> = Key(chain[i])
    /\ (Voted(chain) = {}) => (T = {})

C8_Witness ==
    /\ Len(chain) = 3
    /\ get_vote_counts(chain) = { <<"Kerala", "Ernakulam", "LDF", 2>> }

\* C9: for a ledger built by n add_vote calls on a fresh ledger, after save_chain and
\* load_chain the chain still has n+1 entries and the tally is the one before saving.
C9_VotesSurviveReload ==
    ReloadedGenuine =>
        /\ raised = "none"
        /\ Len(chain) = saved.adds + 1
        /\ get_vote_counts(chain) = get_vote_counts(saved.chain)

C9_Witness ==
    /\ ReloadedGenuine /\ now > saved.at
    /\ saved.adds = 2
    /\ Cardinality(get_vote_counts(chain)) = 2

\* what load_chain reads of an entry
Stored(b) == <<b.index, b.voter_hash, b.state, b.district, b.party, b.previous_hash>>

\* ledger c holds exactly the entries of ledger d, as far as the file carries them over
SameEntries(c, d) ==
    /\ Len(c) = Len(d)
    /\ \A i \in 1..Len(c) : Stored(c[i]) = Stored(d[i])

\* every entry of ledger d is in ledger c at the same position
HoldsEntries(c, d) ==
    /\ Len(c) >= Len(d)
    /\ \A i \in 1..Len(d) : Stored(c[i]) = Stored(d[i])

C11_PersistOverwrites ==
    op = "save_chain" =>
        /\ file.kind = "list"
        /\ Len(file.recs) = Len(chain)
        /\ \A i \in 1..Len(chain) :
              /\ file.recs[i].shape = "object"
              /\ file.recs[i].keys = AllKeys
              /\ \A f \in AllKeys : file.recs[i].val[f] = chain[i][f]

\* a save over an earlier save: the ledger was loaded from the file, grown, and saved again
C11_Witness ==
    /\ op = "save_chain"
    /\ adds = -1
    /\ Len(chain) = 3
    /\ Len(file.recs) = 3

\* C12 (as claimed): add_vote leaves every entry already present unchanged in every field
\* and at its position and adds exactly one entry at the end; and an entry that was
\* appended and persisted keeps its field values through every later reload, append and
\* persist.
C12_AppendOnly ==
    /\ [][op' = "add_vote" =>
            /\ Len(chain') = Len(chain) + 1
            /\ SubSeq(chain', 1, Len(chain)) = chain]_vars
    /\ [](saved.done =>
            /\ Len(chain) >= Len(saved.chain)
            /\ \A i \in 2..Len(saved.chain) : chain[i] = saved.chain[i])

\* C13: when save_chain cannot open the file the error leaves save_chain and save_vote
\* (the vote is not reported as committed), the file keeps what it held, and the ledger
\* loaded from it afterwards is without the vote whose persist failed.
C13_PersistFailureSurfaced ==
    /\ op = "save_failed" =>
          /\ raised = "OSError"
          /\ file = (IF saved.done THEN save_chain(saved.chain) ELSE NoFile)
    /\ (op = "construct" /\ window = "unpersisted") =>
          /\ raised = "none"
          /\ IF saved.done THEN SameEntries(chain, saved.chain)
             ELSE Len(chain) = 1 /\ IsGenesis(chain[1])

C13_Witness ==
    /\ op = "construct" /\ window = "unpersisted"
    /\ saved.done /\ Len(saved.chain) = 2
    /\ Len(chain) = 2

\* the count get_vote_counts gives for key k on ledger c, 0 when it has no row for k
VotesFor(c, k) ==
    LET T == { r \in get_vote_counts(c) : <<r[1], r[2], r[3]>> = k } IN
    IF T = {} THEN 0 ELSE (CHOOSE r \in T : TRUE)[4]

\* C14: add_vote on a populated ledger succeeds whatever the ledger holds, also when the
\* voter's fingerprint is already there and when is_chain_valid() is false: it adds one
\* entry carrying the vote, and that entry counts in the tally.
C14_AppendUnconditional ==
    /\ op = "add_vote" => raised = "none"
    /\ Len(chain) >= 1 =>
          \A v \in VoteInputs :
             LET c == add_vote(chain, v, now)
                 n == Len(chain)
             IN  /\ Len(c) = n + 1
                 /\ SubSeq(c, 1, n) = chain
                 /\ c[n + 1].voter_hash = sha256(v[1])
                 /\ Key(c[n + 1]) = <<v[2], v[3], v[4]>>
                 /\ VotesFor(c, <<v[2], v[3], v[4]>>) = VotesFor(chain, <<v[2], v[3], v[4]>>) + 1

\* a second vote of the same voter appended to a reloaded ledger that is_chain_valid rejects
C14_Witness ==
    /\ op = "add_vote"
    /\ Len(chain) = 3
    /\ ~is_chain_valid(chain)
    /\ chain[2].voter_hash = chain[3].voter_hash
    /\ VotesFor(chain, Key(chain[3])) = 2

\* the seven fields calculate_hash commits to
CommittedFields == AllKeys \ {"hash"}

\* calculate_hash applied to the fields entry b stores
Recompute(b) ==
    calculate_hash(b.index, b.timestamp, b.voter_hash, b.state, b.district, b.party,
                   b.previous_hash)

\* ledger c with field f of its entry k (1-based) given another value, the rest untouched
AlterEntry(c, k, f) == [ c EXCEPT ![k][f] = Altered(f, @) ]

\* the current ledger and every ledger that differs from it in one field of one entry
AlteredLedgers ==
    {chain} \cup { AlterEntry(chain, k, f) : k \in 1..Len(chain), f \in AllKeys }

\* is_chain_valid says exactly whether every entry after the first carries the hash
\* stored in its predecessor, on the ledger, on its altered variants, on the empty one
LinkCheckExactly ==
    /\ \A c \in AlteredLedgers :
          /\ is_chain_valid(c) = (\A i \in 2..Len(c) : c[i].previous_hash = c[i-1].hash)
          /\ Len(c) <= 1 => is_chain_valid(c)
    /\ is_chain_valid(<<>>)

\* C15 (as claimed): is_chain_valid is exactly the link check, true for length 0 or 1, and
\* it recomputes no hash: changing any committed field of an in-memory entry without
\* changing its stored hash leaves the verdict true.
C15_LinkCheckOnly ==
    /\ LinkCheckExactly
    /\ is_chain_valid(chain) =>
          \A k \in 1..Len(chain), f \in CommittedFields :
              is_chain_valid(AlterEntry(chain, k, f))

\* C15 (amended): as above, for the committed fields other than previous_hash, and for
\* the previous_hash of entries[0], which no link check reads.
C15_LinkCheckOnlyAmended ==
    /\ LinkCheckExactly
    /\ is_chain_valid(chain) =>
          \A k \in 1..Len(chain), f \in CommittedFields :
              (f # "previous_hash" \/ k = 1) => is_chain_valid(AlterEntry(chain, k, f))

\* a valid ledger of three entries stays valid with the party of entries[1] changed,
\* although the stored hash of that entry is no longer the hash of its fields
C15_Witness ==
    /\ Len(chain) = 3
    /\ is_chain_valid(chain)
    /\ chain[2].hash = Recompute(chain[2])
    /\ AlterEntry(chain, 2, "party")[2].hash # Recompute(AlterEntry(chain, 2, "party")[2])
    /\ is_chain_valid(AlterEntry(chain, 2, "party"))

\* C16: in a chain built by add_vote calls, entries[k+1].previous_hash is the hash of the
\* fields of entries[k], and with any one committed field of entries[k] changed
\* (k < len-1) the recomputed hash of entries[k] differs from entries[k+1].previous_hash.
C16_TamperDetectedByRecompute ==
    adds >= 0 =>
        \A k \in 1..(Len(chain) - 1) :
            /\ chain[k + 1].previous_hash = Recompute(chain[k])
            /\ \A f \in CommittedFields :
                  chain[k + 1].previous_hash # Recompute(AlterEntry(chain, k, f)[k])

C16_Witness ==
    /\ adds = 2 /\ Len(chain) = 3
    /\ chain[3].previous_hash = Recompute(chain[2])
    /\ chain[3].previous_hash # Recompute(AlterEntry(chain, 2, "state")[2])
    /\ chain[2].previous_hash # Recompute(AlterEntry(chain, 1, "timestamp")[1])

\* C17: in every state of construct, add_vote, save_chain and load_chain, the stored hash
\* of every in-memory entry and of every record of the file is calculate_hash of the
\* index, timestamp, voter_hash, state, district, party and previous_hash stored with it.
C17_SelfHashConsistent ==
    /\ \A i \in 1..Len(chain) : chain[i].hash = Recompute(chain[i])
    /\ file.kind = "list" =>
          \A i \in 1..Len(file.recs) :
              /\ file.recs[i].keys = AllKeys
              /\ file.recs[i].val.hash = Recompute(file.recs[i].val)

\* a ledger reloaded after the clock moved on: entry and record differ in timestamp and
\* hash, each consistent with its own fields
C17_Witness ==
    /\ op = "construct" /\ saved.done
    /\ Len(chain) = 3 /\ Len(file.recs) = 3
    /\ chain[3].timestamp # file.recs[3].val.timestamp
    /\ chain[3].hash = Recompute(chain[3])
    /\ file.recs[3].val.hash = Recompute(file.recs[3].val)

\* C18: add_vote grows the in-memory chain by one and leaves the file as it is, so from
\* an add_vote until the next save_chain the file holds exactly what the last save_chain
\* wrote (no file when none was written).
C18_AppendDoesNotPersist ==
    /\ [][op' = "add_vote" => file' = file /\ Len(chain') = Len(chain) + 1]_vars
    /\ [](window = "open" => file = (IF saved.done THEN save_chain(saved.chain) ELSE NoFile))

C18_Witness ==
    /\ op = "add_vote" /\ window = "open"
    /\ saved.done
    /\ file = save_chain(saved.chain)
    /\ Len(chain) = Len(file.recs) + 1

\* C19 (as claimed): in every state of construct, add_vote, save_chain and load_chain,
\* load_chain called again on a populated ledger included, entries[i].index = i at every
\* position and exactly one entry, the first, is a genesis entry; and a load_chain that
\* finds the file absent or unparsable leaves a genesis-only ledger whatever the ledger
\* held before.
C19_IndexInvariant ==
    /\ \A i \in 1..Len(chain) : chain[i].index = i - 1
    /\ Len(chain) >= 1 /\ IsGenesis(chain[1])
    /\ Cardinality({ i \in 1..Len(chain) : IsGenesis(chain[i]) }) = 1
    /\ (op = "load_chain" /\ file.kind \in {"absent", "garbage"}) =>
          /\ Len(chain) = 1
          /\ IsGenesis(chain[1])

====
